---- MODULE Spec2Model ----
(***************************************************************************)
(* Load-stepping driver of demo/beam/beam_static.py.                       *)
(*                                                                         *)
(* The script is one sequential thread of control: set-up (lines 1-221),   *)
(* the load-step loop (lines 224-252) and the post-processing (lines       *)
(* 255-313).  The model follows the program counter through the loop and   *)
(* the post-processing; the state reached by the set-up is Init.           *)
(*                                                                         *)
(* Load factors are exact rationals <<numerator, denominator>>; np.linspace*)
(* is modelled by what numpy computes (arange * step + start, last entry   *)
(* overwritten by stop when num > 1), in exact arithmetic.                 *)
(* The solution state held by the Functions u, w, r is abstracted to a     *)
(* generation number: 0 is the zero state the Functions are created with,  *)
(* and each nonlinear solve produces the next generation from the one it   *)
(* started from.                                                           *)
(***************************************************************************)
EXTENDS Integers, Sequences, FiniteSets

\* ------------------------------------------------------------------ bounds

\* Largest step count explored besides the script's own one.
MaxNum == 5

\* The script's step count: np.linspace(0, 1, num=200 + 1).
NumSteps == 201

\* Step counts the loop is run with: the script's own and the small ones.
StepCounts == (1..MaxNum) \cup {NumSteps}

\* ------------------------------------------------------- rational numbers

Rat(n, d) == <<n, d>>

Zero == Rat(0, 1)

One == Rat(1, 1)

RatEq(a, b) == a[1] * b[2] = b[1] * a[2]

RatLess(a, b) == a[1] * b[2] < b[1] * a[2]

RatAdd(a, b) == Rat(a[1] * b[2] + b[1] * a[2], a[2] * b[2])

RatSub(a, b) == Rat(a[1] * b[2] - b[1] * a[2], a[2] * b[2])

RatMulInt(a, k) == Rat(a[1] * k, a[2])

RatDivInt(a, k) == Rat(a[1], a[2] * k)

\* ------------------------------------------------------------ np.linspace

\* The bug of overwriting the last entry by stop also when num = 1.
linspace_always_stop(start, stop, n) ==
    LET div   == n - 1
        delta == RatSub(stop, start)
        step  == IF div > 0 THEN RatDivInt(delta, div) ELSE delta
        y     == [j \in 1..n |-> RatAdd(RatMulInt(step, j - 1), start)]
    IN  [y EXCEPT ![n] = stop]

\* The bug of leaving the endpoint out (endpoint=False: div = num).
linspace_no_endpoint(start, stop, n) ==
    LET div   == n
        delta == RatSub(stop, start)
        step  == RatDivInt(delta, div)
    IN  [j \in 1..n |-> RatAdd(RatMulInt(step, j - 1), start)]

\* np.linspace(start, stop, num=n), endpoint=True:
\*   div = num - 1; step = delta / div if div > 0, else y = arange * delta;
\*   y = arange(0, num) * step + start; if num > 1: y[-1] = stop.
linspace(start, stop, n) ==
    LET div   == n - 1
        delta == RatSub(stop, start)
        step  == IF div > 0 THEN RatDivInt(delta, div) ELSE delta
        y     == [j \in 1..n |-> RatAdd(RatMulInt(step, j - 1), start)]
    IN  IF n > 1 THEN [y EXCEPT ![n] = stop] ELSE y

\* ------------------------------------------------------------------ state

VARIABLES
    num,          \* number of load steps (num of line 224)
    factors,      \* the array the for statement iterates over
    i,            \* number of factors taken from the array so far
    factor,       \* loop variable
    mu,           \* the Constant μ: [val |-> value, by |-> iteration that wrote it, 0 = set-up]
    bcs,          \* problem.bcs: [val |-> list of constraints, by |-> iteration that wrote it]
    problem_u,    \* contents of the Functions u, w, r the problem was built on
    m,            \* the driver's name m: the state list last returned by solve
    reason,       \* problem.snes.getConvergedReason()
    pc,           \* position of the script
    solveLog,     \* history: one record per call of problem.solve()
    diagLog,      \* console: one record per block of diagnostic prints
    announced,    \* console: the load factors announced by pprint
    events,       \* history: what happened in the current iteration, in order
    checks,       \* history: number of evaluations of the assert
    extracted,    \* u_, w_, r_ of line 255 (None before)
    ofile,        \* the XDMF output file: [closed, writes]
    interpolated, \* u__, w__, r__ computed
    plotSaved     \* beam_static_result.pdf written

vars == <<num, factors, i, factor, mu, bcs, problem_u, m, reason, pc, solveLog,
          diagLog, announced, events, checks, extracted, ofile, interpolated,
          plotSaved>>

None == "None"

\* u = Function(U), w = Function(W), r = Function(R): created zero.
InitialState == 0

\* SNES reasons: negative is diverged, 0 is still iterating, positive is converged.
Reasons == {-1, 0, 1}

\* -------------------------------------------------------------- the solver

\* problem.solve(): Newton iterations from the current contents of u, w, r,
\* which they overwrite; the list of the updated Functions is returned.
SNESSolve(start) == start + 1

\* ----------------------------------------------------- boundary conditions

\* u_left, w_left, r_left = Function(U), Function(W), Function(R): zero, never written.
u_left == Zero

w_left == Zero

r_left == Zero

\* The bug of scaling the prescribed values by the load factor.
DirichletBCs_scaled ==
    << [value |-> mu.val, space |-> "U", tag |-> "beg"],
       [value |-> mu.val, space |-> "W", tag |-> "beg"],
       [value |-> mu.val, space |-> "R", tag |-> "beg"] >>

\* The list assigned to problem.bcs: DirichletBC(u_left, left_dofs_U), ...
DirichletBCs ==
    << [value |-> u_left, space |-> "U", tag |-> "beg"],
       [value |-> w_left, space |-> "W", tag |-> "beg"],
       [value |-> r_left, space |-> "R", tag |-> "beg"] >>

\* ------------------------------------------------------------ diagnostics

\* An integrand is known by the set of quantities it is built from; the
\* undeformed geometry x0, the fields u, w, r and the load factor μ.
lambda_s == {"x0", "u", "w", "r"}

lambda_xi == {"x0", "u", "w", "r"}

\* The bug of measuring the deformed stretch (the commented line 137).
lambda0_deformed == lambda_s \cup lambda_xi

\* λ0 = sqrt(dot(GRAD(x0), GRAD(x0))): undeformed stretch.
lambda0 == {"x0"}

\* κ = -GRAD(r)
kappa == {"x0", "r"}

\* κ0 = Constant(mesh, -2π), integrated over dx
kappa0 == {"x0"}

\* ep = μ * 1/2 * (λp**2 - λ0**2) * 0: annihilated by the factor 0.
ep == {}

\* e = 1/2 (λs**2 + λξ**2 - λ0**2) - ep
e == lambda_s \cup lambda_xi \cup lambda0 \cup ep

\* g = λξ
g == lambda_xi

\* k = λs κ + (λs - λ0) κ0
k == lambda_s \cup kappa \cup lambda0 \cup kappa0

\* The values an integrand is evaluated on.
Env == [x0 |-> "f_arc", u |-> problem_u, w |-> problem_u, r |-> problem_u, mu |-> mu.val]

\* assemble_scalar(expr * dx): a function of the values the integrand reads.
assemble_scalar(expr) ==
    [x0 |-> IF "x0" \in expr THEN Env.x0 ELSE None,
     u  |-> IF "u"  \in expr THEN Env.u  ELSE -1,
     w  |-> IF "w"  \in expr THEN Env.w  ELSE -1,
     r  |-> IF "r"  \in expr THEN Env.r  ELSE -1,
     mu |-> IF "mu" \in expr THEN Env.mu ELSE <<>>]

\* ------------------------------------------------------------------- Init

Init ==
    /\ num \in StepCounts
    /\ factors = <<>>
    /\ i = 0
    /\ factor = None
    /\ mu = [val |-> One, by |-> 0]
    /\ bcs = [val |-> <<>>, by |-> 0]
    /\ problem_u = InitialState
    /\ m = InitialState
    /\ reason = 0
    /\ pc = "start"
    /\ solveLog = <<>>
    /\ diagLog = <<>>
    /\ announced = <<>>
    /\ events = <<>>
    /\ checks = 0
    /\ extracted = None
    /\ ofile = [closed |-> FALSE, writes |-> <<>>]
    /\ interpolated = FALSE
    /\ plotSaved = FALSE

\* ---------------------------------------------------------------- actions

\* line 224, entering the for statement: the array of load factors is built once.
ForInit ==
    /\ pc = "start"
    /\ factors' = linspace(Zero, One, num)
    /\ pc' = "for"
    /\ UNCHANGED <<num, i, factor, mu, bcs, problem_u, m, reason, solveLog, diagLog,
                   announced, events, checks, extracted, ofile, interpolated, plotSaved>>

\* The bug of re-initialising the fields at the head of every iteration.
ForNext_reset ==
    /\ pc = "for"
    /\ i < Len(factors)
    /\ i' = i + 1
    /\ factor' = factors[i + 1]
    /\ events' = <<>>
    /\ problem_u' = InitialState
    /\ pc' = "set_mu"
    /\ UNCHANGED <<num, factors, mu, bcs, m, reason, solveLog, diagLog,
                   announced, checks, extracted, ofile, interpolated, plotSaved>>

\* line 224, head of the loop with a factor left: the next one is bound to factor.
ForNext ==
    /\ pc = "for"
    /\ i < Len(factors)
    /\ i' = i + 1
    /\ factor' = factors[i + 1]
    /\ events' = <<>>
    /\ pc' = "set_mu"
    /\ UNCHANGED <<num, factors, mu, bcs, problem_u, m, reason, solveLog, diagLog,
                   announced, checks, extracted, ofile, interpolated, plotSaved>>

\* line 224, head of the loop with the array exhausted: the loop is left.
ForExit ==
    /\ pc = "for"
    /\ i = Len(factors)
    /\ pc' = "extract"
    /\ UNCHANGED <<num, factors, i, factor, mu, bcs, problem_u, m, reason, solveLog,
                   diagLog, announced, events, checks, extracted, ofile, interpolated,
                   plotSaved>>

\* The bug of leaving μ as it is.
SetLoadFactor_skipped ==
    /\ pc = "set_mu"
    /\ events' = Append(events, "mu")
    /\ pc' = "set_bcs"
    /\ UNCHANGED <<num, factors, i, factor, mu, bcs, problem_u, m, reason, solveLog,
                   diagLog, announced, checks, extracted, ofile, interpolated, plotSaved>>

\* line 227: μ.value = factor
SetLoadFactor ==
    /\ pc = "set_mu"
    /\ mu' = [val |-> factor, by |-> i]
    /\ events' = Append(events, "mu")
    /\ pc' = "set_bcs"
    /\ UNCHANGED <<num, factors, i, factor, bcs, problem_u, m, reason, solveLog,
                   diagLog, announced, checks, extracted, ofile, interpolated, plotSaved>>

\* lines 230-234: problem.bcs = [DirichletBC(u_left, left_dofs_U), ...]
SetBcs ==
    /\ pc = "set_bcs"
    /\ bcs' = [val |-> DirichletBCs, by |-> i]
    /\ events' = Append(events, "bcs")
    /\ pc' = "announce"
    /\ UNCHANGED <<num, factors, i, factor, mu, problem_u, m, reason, solveLog,
                   diagLog, announced, checks, extracted, ofile, interpolated, plotSaved>>

\* line 236: pprint("+++ Processing load factor μ = ...")
Announce ==
    /\ pc = "announce"
    /\ announced' = Append(announced, mu.val)
    /\ events' = Append(events, "announce")
    /\ pc' = "solve"
    /\ UNCHANGED <<num, factors, i, factor, mu, bcs, problem_u, m, reason, solveLog,
                   diagLog, checks, extracted, ofile, interpolated, plotSaved>>

\* The bug of dropping the list solve returns.
Solve_discard ==
    /\ pc = "solve"
    /\ \E rsn \in Reasons :
         /\ reason' = rsn
         /\ problem_u' = SNESSolve(problem_u)
         /\ solveLog' = Append(solveLog,
                [step |-> i, mu |-> mu.val, mu_by |-> mu.by, bcs |-> bcs.val,
                 bcs_by |-> bcs.by, start |-> problem_u,
                 result |-> SNESSolve(problem_u), reason |-> rsn])
    /\ events' = Append(events, "solve")
    /\ pc' = "assert"
    /\ UNCHANGED <<num, factors, i, factor, mu, bcs, m, diagLog, announced, checks,
                   extracted, ofile, interpolated, plotSaved>>

\* line 239: m = problem.solve().  The solver reads μ and problem.bcs as they
\* are now, starts from the contents of u, w, r and leaves its reason behind.
Solve ==
    /\ pc = "solve"
    /\ \E rsn \in Reasons :
         /\ reason' = rsn
         /\ problem_u' = SNESSolve(problem_u)
         /\ m' = SNESSolve(problem_u)
         /\ solveLog' = Append(solveLog,
                [step |-> i, mu |-> mu.val, mu_by |-> mu.by, bcs |-> bcs.val,
                 bcs_by |-> bcs.by, start |-> problem_u,
                 result |-> SNESSolve(problem_u), reason |-> rsn])
    /\ events' = Append(events, "solve")
    /\ pc' = "assert"
    /\ UNCHANGED <<num, factors, i, factor, mu, bcs, diagLog, announced, checks,
                   extracted, ofile, interpolated, plotSaved>>

\* The bug of accepting the reason 0 (still iterating) as converged.
AssertConverged_nonneg ==
    /\ pc = "assert"
    /\ checks' = checks + 1
    /\ events' = Append(events, "check")
    /\ pc' = IF reason >= 0 THEN "diag" ELSE "aborted"
    /\ UNCHANGED <<num, factors, i, factor, mu, bcs, problem_u, m, reason, solveLog,
                   diagLog, announced, extracted, ofile, interpolated, plotSaved>>

\* The bug of a check that never stops the run.
AssertConverged_stripped ==
    /\ pc = "assert"
    /\ checks' = checks + 1
    /\ events' = Append(events, "check")
    /\ pc' = "diag"
    /\ UNCHANGED <<num, factors, i, factor, mu, bcs, problem_u, m, reason, solveLog,
                   diagLog, announced, extracted, ofile, interpolated, plotSaved>>

\* The bug of leaving the loop (break) on failure instead of raising.
AssertConverged_break ==
    /\ pc = "assert"
    /\ checks' = checks + 1
    /\ events' = Append(events, "check")
    /\ pc' = IF reason > 0 THEN "diag" ELSE "extract"
    /\ UNCHANGED <<num, factors, i, factor, mu, bcs, problem_u, m, reason, solveLog,
                   diagLog, announced, extracted, ofile, interpolated, plotSaved>>

\* line 242: assert problem.snes.getConvergedReason() > 0.  A failed assert
\* raises AssertionError, which nothing catches: the script ends there.
AssertConverged ==
    /\ pc = "assert"
    /\ checks' = checks + 1
    /\ events' = Append(events, "check")
    /\ pc' = IF reason > 0 THEN "diag" ELSE "aborted"
    /\ UNCHANGED <<num, factors, i, factor, mu, bcs, problem_u, m, reason, solveLog,
                   diagLog, announced, extracted, ofile, interpolated, plotSaved>>

\* lines 244-252: the eight diagnostic prints.
Diagnostics ==
    /\ pc = "diag"
    /\ diagLog' = Append(diagLog,
           [step |-> i,
            L0     |-> assemble_scalar(lambda0),
            L      |-> assemble_scalar(lambda_s \cup lambda_xi),
            ep     |-> assemble_scalar(ep),
            e      |-> assemble_scalar(e),
            g      |-> assemble_scalar(g),
            k      |-> assemble_scalar(k),
            kappa  |-> assemble_scalar(kappa),
            kappa0 |-> assemble_scalar(kappa0)])
    /\ events' = Append(events, "diag")
    /\ pc' = "for"
    /\ UNCHANGED <<num, factors, i, factor, mu, bcs, problem_u, m, reason, solveLog,
                   announced, checks, extracted, ofile, interpolated, plotSaved>>

\* line 255: u_, w_, r_ = m
Extract ==
    /\ pc = "extract"
    /\ extracted' = m
    /\ pc' = "close"
    /\ UNCHANGED <<num, factors, i, factor, mu, bcs, problem_u, m, reason, solveLog,
                   diagLog, announced, events, checks, ofile, interpolated, plotSaved>>

\* line 266: ofile.close() (the write_function calls above it are commented out)
CloseFile ==
    /\ pc = "close"
    /\ ofile' = [ofile EXCEPT !.closed = TRUE]
    /\ pc' = "interpolate"
    /\ UNCHANGED <<num, factors, i, factor, mu, bcs, problem_u, m, reason, solveLog,
                   diagLog, announced, events, checks, extracted, interpolated,
                   plotSaved>>

\* lines 268-286: the solution interpolated at the mesh geometry nodes
Interpolate ==
    /\ pc = "interpolate"
    /\ interpolated' = TRUE
    /\ pc' = "plot"
    /\ UNCHANGED <<num, factors, i, factor, mu, bcs, problem_u, m, reason, solveLog,
                   diagLog, announced, events, checks, extracted, ofile, plotSaved>>

\* lines 288-313: fig.savefig(name + '_result.pdf'); the script ends
SavePlot ==
    /\ pc = "plot"
    /\ plotSaved' = TRUE
    /\ pc' = "done"
    /\ UNCHANGED <<num, factors, i, factor, mu, bcs, problem_u, m, reason, solveLog,
                   diagLog, announced, events, checks, extracted, ofile, interpolated>>

Next ==
    \/ ForInit
    \/ ForNext
    \/ ForExit
    \/ SetLoadFactor
    \/ SetBcs
    \/ Announce
    \/ Solve
    \/ AssertConverged
    \/ Diagnostics
    \/ Extract
    \/ CloseFile
    \/ Interpolate
    \/ SavePlot

\* The script as a state machine.
Spec == Init /\ [][Next]_vars

\* The interpreter always executes the next statement, and every external call
\* returns (the solver is limited to snes_max_it iterations).
FairSpec == Spec /\ WF_vars(Next)

\* ------------------------------------------------------------- properties

\* The loop has been left through its end (every solve converged).
PastLoop == pc \in {"extract", "close", "interpolate", "plot", "done"}

\* The load factors in effect at the solves so far, in order.
SolvedAt(j) == solveLog[j].mu

StrictlyIncreasing ==
    \A j \in 1..(Len(solveLog) - 1) : RatLess(SolvedAt(j), SolvedAt(j + 1))

EquallySpaced ==
    \A j \in 1..(Len(solveLog) - 2) :
        RatEq(RatSub(SolvedAt(j + 1), SolvedAt(j)),
              RatSub(SolvedAt(j + 2), SolvedAt(j + 1)))

C2_AbortAtFailure ==
    /\ \A j \in 1..Len(solveLog) :
          /\ solveLog[j].step = j
          /\ (j < Len(solveLog) => solveLog[j].reason > 0)
    /\ (pc = "aborted" =>
          /\ reason <= 0
          /\ Len(solveLog) = i
          /\ solveLog[i].reason = reason
          /\ ~ ENABLED Next)

\* A run stopped by a failure in the middle of the load path.
C2_Witness == pc = "aborted" /\ 2 <= i /\ i < num

\* The events of an iteration the claim orders (the announcement is console output only).
OrderedEvents == SelectSeq(events, LAMBDA ev : ev # "announce")

IterationOrder == <<"mu", "bcs", "solve", "check", "diag">>

\* C3: in every iteration the load factor is set, then the boundary conditions
\* are assigned, then the solver is called, then the reason is checked, then
\* the diagnostics are printed; so the load factor every solve sees is the one
\* of its own step, written in that iteration, never the one the set-up left
\* or the one a previous step wrote.
C3_IterationOrder ==
    /\ Len(OrderedEvents) <= Len(IterationOrder)
    /\ OrderedEvents = SubSeq(IterationOrder, 1, Len(OrderedEvents))
    /\ \A j \in 1..Len(solveLog) :
          /\ RatEq(solveLog[j].mu, factors[j])
          /\ solveLog[j].mu_by = solveLog[j].step
          /\ solveLog[j].mu_by # 0

\* A whole iteration has run, in a step whose load factor is not the set-up's 1.0.
C3_Witness ==
    /\ OrderedEvents = IterationOrder
    /\ i >= 2
    /\ ~ RatEq(solveLog[i].mu, One)

\* The script has ended after all its solves, holding the last one's result.
FullRunDone ==
    /\ pc = "done"
    /\ Len(solveLog) = NumSteps
    /\ \A j \in 1..NumSteps : solveLog[j].reason > 0
    /\ extracted = solveLog[NumSteps].result
    /\ solveLog[NumSteps].step = NumSteps
    /\ RatEq(solveLog[NumSteps].mu, One)

\* C4: with the script's 201 equally spaced load factors and a solver that
\* converges at every step, the run ends after exactly 201 solves, and the state
\* extracted after the loop is the one the 201st solve returned, at load factor 1.
\* (A run is either stopped by a failed solve or ends this way.)
C4_FullRun == (num = NumSteps /\ pc = "start") ~> (pc = "aborted" \/ FullRunDone)

\* The script's own run has ended with all its solves done.
C4_Witness ==
    /\ pc = "done"
    /\ num = NumSteps
    /\ Len(solveLog) = NumSteps
    /\ extracted = solveLog[NumSteps].result

\* What holds throughout a run of one step.
SingleStepSafe ==
    /\ Len(solveLog) <= 1
    /\ \A j \in 1..Len(factors) : RatEq(factors[j], Zero)
    /\ \A j \in 1..Len(solveLog) : RatEq(solveLog[j].mu, Zero)
    /\ (pc \in {"assert", "diag", "aborted"} \/ PastLoop => Len(solveLog) = 1)
    /\ (pc = "done" => reason > 0 /\ extracted = solveLog[1].result)

C6_CheckedBeforeDiagnostics ==
    /\ Len(solveLog) = checks + (IF pc = "assert" THEN 1 ELSE 0)
    /\ Len(diagLog) <= checks
    /\ \A j \in 1..Len(diagLog) :
          /\ diagLog[j].step = j
          /\ j <= Len(solveLog)
          /\ solveLog[j].reason > 0
    /\ \A j \in 1..Len(solveLog) :
          solveLog[j].reason <= 0 => Len(diagLog) < j

\* A failed step after converged ones: its diagnostics are missing.
C6_Witness ==
    /\ pc = "aborted"
    /\ Len(solveLog) = 3
    /\ Len(diagLog) = 2
    /\ checks = 3

\* C7: when a solve fails the run ends with nothing persisted: the solution is
\* not extracted, the output file is neither written to nor closed, nothing is
\* interpolated and no plot is written; no converged step left a checkpoint.
C7_NothingPersisted ==
    /\ (pc = "aborted" =>
          /\ extracted = None
          /\ ofile.closed = FALSE
          /\ ofile.writes = <<>>
          /\ interpolated = FALSE
          /\ plotSaved = FALSE
          /\ ~ ENABLED Next)
    /\ ((\E j \in 1..Len(solveLog) : solveLog[j].reason <= 0) =>
          /\ pc \in {"assert", "aborted"}
          /\ extracted = None
          /\ ofile = [closed |-> FALSE, writes |-> <<>>]
          /\ ~ interpolated
          /\ ~ plotSaved)

\* A run stopped after converged steps.
C7_Witness == pc = "aborted" /\ Len(diagLog) >= 2

\* C8: the steps are solved in increasing order of the load factor, and every
\* solve starts from the state the previous solve produced, the first one from
\* the initial zero state; between two solves the state is left alone.
C8_Continuation ==
    /\ StrictlyIncreasing
    /\ \A j \in 1..Len(solveLog) :
          solveLog[j].start =
              IF j = 1 THEN InitialState ELSE solveLog[j - 1].result
    /\ problem_u = (IF solveLog = <<>> THEN InitialState
                    ELSE solveLog[Len(solveLog)].result)
    /\ m = problem_u

\* A third solve has started from the second one's result.
C8_Witness ==
    /\ Len(solveLog) >= 3
    /\ solveLog[3].start = solveLog[2].result
    /\ solveLog[3].start # InitialState

\* C9: the boundary conditions are assigned in every iteration before the
\* solve, and every solve sees the same three: u, w and r held at the values of
\* the zero Functions on the dofs of the tag beg, whatever the load factor and
\* the solution state are.
C9_SameBcs ==
    \A j \in 1..Len(solveLog) :
        /\ solveLog[j].bcs_by = solveLog[j].step
        /\ Len(solveLog[j].bcs) = 3
        /\ \A c \in 1..3 :
              /\ RatEq(solveLog[j].bcs[c].value, Zero)
              /\ solveLog[j].bcs[c].tag = "beg"
        /\ <<solveLog[j].bcs[1].space, solveLog[j].bcs[2].space,
             solveLog[j].bcs[3].space>> = <<"U", "W", "R">>
        /\ solveLog[j].bcs = solveLog[1].bcs

\* Two solves at different load factors and different states.
C9_Witness ==
    /\ Len(solveLog) >= 2
    /\ ~ RatEq(solveLog[1].mu, solveLog[2].mu)
    /\ solveLog[1].start # solveLog[2].start

\* C10: a diagnostic whose integrand is built from the undeformed geometry
\* alone (the undeformed arc length L0, the constant κ0) has the same value in
\* every step: the value of the first step is the value of every later one.
C10_UndeformedDiagnostics ==
    \A j \in 1..Len(diagLog) :
        /\ diagLog[j].L0 = diagLog[1].L0
        /\ diagLog[j].kappa0 = diagLog[1].kappa0

\* The whole run has printed its diagnostics, and the deformed length moved.
C10_Witness ==
    /\ pc = "done"
    /\ Len(diagLog) = num
    /\ num >= 2
    /\ diagLog[num].L # diagLog[1].L

====
